---- MODULE Spec2Model ----
(***************************************************************************)
(* A model of src/advdec.py: the market-statistics publisher.  The module  *)
(* start-up reads the configuration, the driver                            *)
(* save_data_to_google_sheets_and_csv runs the Most Active pipeline and    *)
(* then the Advances/Declines pipeline, and upload_to_google_sheets talks  *)
(* to the spreadsheet service one call at a time.  The provider, the       *)
(* spreadsheet service and the file system are collaborators: each call    *)
(* to one of them either returns or raises, chosen nondeterministically.   *)
(***************************************************************************)
EXTENDS Integers, Sequences, FiniteSets, TLC

VARIABLES
    pc,      \* control location of the running program
    env,     \* the two environment values read at start-up
    cur,     \* dataset whose pipeline is running: "MA", "AD" or "none"
    ret,     \* where upload_to_google_sheets returns to
    data,    \* the value held by the pipeline's local (raw payload or DataFrame)
    ws,      \* the worksheet handle inside upload_to_google_sheets
    tabs,    \* spreadsheet: tab name -> worksheet or Absent
    files,   \* working directory: file name -> contents or Absent
    log,     \* every call made to a collaborator, in order
    stage,   \* pipeline state of each dataset
    exc,     \* the exception that left the program, "none" if none did
    errlog,  \* messages given to logging.error / logging.warning
    rt,      \* the run of fetch_nse_data_with_retries under study
    nm,      \* the normalizer application under study
    hu       \* the repeated-upload run under study

vars == <<pc, env, cur, ret, data, ws, tabs, files, log, stage, exc, errlog, rt, nm, hu>>

-----------------------------------------------------------------------------
(* Bounds of the model.                                                    *)

MaxRows == 2
MaxCols == 2
MaxListLen == 2
MaxRetries == 3
MaxFails == 4
MaxUploads == 2

(* flatten_dataframe's truncation threshold.                               *)
MaxCellLen == 50000

-----------------------------------------------------------------------------
(* Python values.  A scalar or an opaque nested object is a record         *)
(* [k, id, n]: a number n; a string named id of n characters; None/NaN;    *)
(* a nested dict or list named id whose str() has n characters.            *)

Num(v) == [k |-> "num", id |-> "", n |-> v]
Str(name, len) == [k |-> "str", id |-> name, n |-> len]
None == [k |-> "none", id |-> "", n |-> 0]
Nested(name, len) == [k |-> "nested", id |-> name, n |-> len]
EmptyStr == Str("", 0)

(* A dict is its items in insertion order, a list its elements, a          *)
(* DataFrame its column labels and its rows of cells.                      *)
Dict(items) == [k |-> "dict", items |-> items]
List(items) == [k |-> "list", items |-> items]
DataFrame(cols, rows) == [k |-> "df", cols |-> cols, rows |-> rows]

Raised(name) == [k |-> "raise", id |-> name, n |-> 0]

Absent == [k |-> "absent"]

IsScalar(x) == x.k \in {"num", "str", "none", "nested"}

SeqToSet(s) == {s[i] : i \in 1..Len(s)}

Keys(d) == [i \in 1..Len(d.items) |-> d.items[i][1]]

HasKey(d, key) == \E i \in 1..Len(d.items) : d.items[i][1] = key

(* dict.get(key, default)                                                  *)
Get(d, key, default) ==
    IF HasKey(d, key)
    THEN d.items[CHOOSE i \in 1..Len(d.items) : d.items[i][1] = key][2]
    ELSE default

(* del d[key]                                                              *)
Del(d, key) == Dict(SelectSeq(d.items, LAMBDA it : it[1] # key))

(* The union of the keys of a list of dicts, in first-seen order.          *)
RECURSIVE UnionKeys(_, _)
UnionKeys(ds, acc) ==
    IF ds = <<>> THEN acc
    ELSE LET new == SelectSeq(Keys(Head(ds)),
                              LAMBDA key : key \notin SeqToSet(acc))
         IN UnionKeys(Tail(ds), acc \o new)

(* pd.DataFrame(list): a list of dicts gives the union of the keys as      *)
(* columns and NaN for a missing key; a list led by a dict that holds a    *)
(* non-dict raises; a list led by a scalar becomes the single column 0.    *)
FrameOfList(lst) ==
    IF lst.items = <<>> THEN DataFrame(<<>>, <<>>)
    ELSE IF Head(lst.items).k = "dict"
    THEN IF \E i \in 1..Len(lst.items) : lst.items[i].k # "dict"
         THEN Raised("AttributeError")
         ELSE LET cols == UnionKeys(lst.items, <<>>)
              IN DataFrame(cols,
                     [i \in 1..Len(lst.items) |->
                        [j \in 1..Len(cols) |-> Get(lst.items[i], cols[j], None)]])
    ELSE DataFrame(<<"0">>,
             [i \in 1..Len(lst.items) |->
                <<IF IsScalar(lst.items[i]) THEN lst.items[i]
                  ELSE Nested("obj", 2 + 8 * Len(lst.items[i].items))>>])

(* DataFrame.empty: no rows or no columns.                                 *)
IsEmptyFrame(df) == Len(df.rows) = 0 \/ Len(df.cols) = 0

-----------------------------------------------------------------------------
(* The normalizers.                                                        *)

(* validate_and_convert_to_dataframe: the value returned, and whether the  *)
(* "Unexpected data format" warning was logged.                            *)
validate_and_convert_to_dataframe(x) ==
    IF x.k = "df" THEN [val |-> x, warned |-> FALSE]
    ELSE IF x.k = "list" THEN [val |-> FrameOfList(x), warned |-> FALSE]
    ELSE IF x.k = "dict" THEN [val |-> FrameOfList(List(<<x>>)), warned |-> FALSE]
    ELSE [val |-> None, warned |-> TRUE]

(* The two lambdas of flatten_dataframe applied to one cell: str() of a    *)
(* nested value, then truncation of a long string.                         *)
FlattenCell(x) ==
    LET s == IF x.k = "nested" THEN Str(x.id, x.n) ELSE x
    IN IF s.k = "str" /\ s.n > MaxCellLen THEN Str(s.id, MaxCellLen) ELSE s

(* flatten_dataframe; a value without .columns raises.                     *)
flatten_dataframe(x) ==
    IF x.k # "df" THEN Raised("AttributeError")
    ELSE DataFrame(x.cols,
             [i \in 1..Len(x.rows) |->
                [j \in 1..Len(x.cols) |-> FlattenCell(x.rows[i][j])]])

(* The applymap lambda of the Advances/Declines pipeline.                  *)
CleanCell(x) == IF x.k \in {"nested", "none"} THEN EmptyStr ELSE x

(* bool(x) as the `if data` test evaluates it; a DataFrame has no truth    *)
(* value (Truthy is not asked for one).                                    *)
Truthy(x) ==
    CASE x.k = "none" -> FALSE
      [] x.k \in {"list", "dict"} -> Len(x.items) > 0
      [] x.k = "num" -> x.n # 0
      [] x.k = "str" -> x.n > 0
      [] OTHER -> TRUE

(* Lines 124-130 of the driver: strip meta, then take data.                *)
(* Lines 131-137: test the first element, build the DataFrame and clean    *)
(* it; or the exception raised.                                            *)
ExtractRows(raw) ==
    LET d1 == IF raw.k = "dict" /\ HasKey(raw, "meta") THEN Del(raw, "meta") ELSE raw
    IN IF d1.k = "dict" THEN Get(d1, "data", List(<<>>)) ELSE d1

NormalizeAdvDec(raw) ==
    LET d2 == ExtractRows(raw)
    IN  IF d2.k = "df" THEN Raised("ValueError")
        ELSE IF ~Truthy(d2) THEN Raised("ValueError")
        ELSE IF d2.k = "dict" THEN Raised("KeyError")
        ELSE IF d2.k \in {"num", "nested"} THEN Raised("TypeError")
        ELSE IF d2.k = "str" THEN Raised("ValueError")
        ELSE IF Head(d2.items).k # "dict" THEN Raised("ValueError")
        ELSE LET df == FrameOfList(d2)
             IN IF df.k = "raise" THEN df
                ELSE DataFrame(df.cols,
                         [i \in 1..Len(df.rows) |->
                            [j \in 1..Len(df.cols) |-> CleanCell(df.rows[i][j])]])

-----------------------------------------------------------------------------
(* The spreadsheet service.  A worksheet is its grid size and the set of   *)
(* its non-empty cells <<row, column, value>>.                             *)

Sheet(r, c, cells) == [k |-> "sheet", rows |-> r, cols |-> c, cells |-> cells]

Max(a, b) == IF a >= b THEN a ELSE b

(* [dataframe.columns.values.tolist()] + dataframe.values.tolist()         *)
Values(df) ==
    <<[j \in 1..Len(df.cols) |-> Str(df.cols[j], Len(df.cols[j]))]>> \o df.rows

ClearKeepsCells(sheet) == sheet

(* worksheet.clear()                                                       *)
Clear(sheet) == Sheet(sheet.rows, sheet.cols, {})

(* sheet.add_worksheet(title, rows, cols)                                  *)
AddWorksheet(r, c) == Sheet(r, c, {})

(* worksheet.update(values): one batch write anchored at A1.  A None       *)
(* leaves its cell as it was, an empty string empties it, any other value  *)
(* replaces it; cells outside the written block are not touched.           *)
Update(sheet, vals) ==
    LET written == UNION {{<<i, j>> : j \in 1..Len(vals[i])} : i \in 1..Len(vals)}
        hit(i, j) == i \in 1..Len(vals) /\ j \in 1..Len(vals[i])
                     /\ vals[i][j].k # "none"
        kept == {c \in sheet.cells : ~hit(c[1], c[2])}
        new == {<<p[1], p[2], vals[p[1]][p[2]]>> :
                   p \in {q \in written : hit(q[1], q[2])
                                          /\ vals[q[1]][q[2]] # EmptyStr}}
        width == IF vals = <<>> THEN 0 ELSE Len(vals[1])
    IN Sheet(Max(sheet.rows, Len(vals)), Max(sheet.cols, width), kept \cup new)

(* What a worksheet holds when it holds exactly the table: the header row  *)
(* followed by the rows.                                                   *)
Rendered(df) ==
    LET vals == Values(df)
    IN {<<i, j, vals[i][j]>> : i \in 1..Len(vals), j \in 1..Len(df.cols)}
       \ {c \in {<<i, j, vals[i][j]>> : i \in 1..Len(vals), j \in 1..Len(df.cols)} :
              c[3].k = "none" \/ c[3] = EmptyStr}

(* DataFrame.to_csv(path, index=False): header then rows, NaN as empty.    *)
ToCsv(df) ==
    [k |-> "file",
     body |-> <<[j \in 1..Len(df.cols) |-> Str(df.cols[j], Len(df.cols[j]))]>> \o
              [i \in 1..Len(df.rows) |->
                 [j \in 1..Len(df.cols) |->
                    IF df.rows[i][j].k = "none" THEN EmptyStr ELSE df.rows[i][j]]]]

-----------------------------------------------------------------------------
(* The program state.                                                      *)

Datasets == {"MA", "AD"}

TabOf(ds) == IF ds = "MA" THEN "Most Active" ELSE "Adv_Dec"

FileOf(ds) == IF ds = "MA" THEN "Most_Active.csv" ELSE "advances_declines.csv"

TabNames == {TabOf(ds) : ds \in Datasets}

FileNames == {FileOf(ds) : ds \in Datasets}

(* A worksheet left by an earlier run: a cell inside and a cell outside    *)
(* the block any table of this model covers.                               *)
OldSheet ==
    Sheet(MaxRows + 3, MaxCols + 3,
          {<<1, 1, Str("old", 3)>>, <<MaxRows + 3, MaxCols + 3, Num(7)>>})

PriorSheets == {Absent, Sheet(1, 1, {}), OldSheet}

OldFile == [k |-> "file", body |-> <<<<Str("old", 3)>>>>]

(* One call to a collaborator: the operation, the dataset it was made      *)
(* for, whether it returned, and its arguments.                            *)
Call(op, ds, ok, dims, vals) ==
    [op |-> op, ds |-> ds, ok |-> ok, dims |-> dims, vals |-> vals]

NoHandle == [tab |-> "none", found |-> FALSE]

RtIdle == [pc |-> "off", R |-> 0, N |-> 0, payload |-> None, attempt |-> 0,
           calls |-> 0, fetchErrors |-> 0, attemptErrors |-> 0, sleeps |-> 0,
           result |-> None]

NmIdle == [pc |-> "off", fn |-> "none", raw |-> None, result |-> None,
           warned |-> FALSE]

HuIdle == [pc |-> "off", table |-> None, prior |-> Absent, done |-> 0,
           existed |-> FALSE, mark |-> 0, first |-> Absent]

(* What the provider may answer to nse_most_active.                        *)
MAOutcomes ==
    { Raised("ConnectionError"),
      None,
      Num(5),
      Dict(<<>>),
      Dict(<< <<"symbol", Str("ABC", 3)>>, <<"value", Num(100)>> >>),
      Dict(<< <<"symbol", Str("big", MaxCellLen + 1)>>, <<"meta", Nested("m", 12)>> >>),
      List(<< Dict(<< <<"symbol", Str("ABC", 3)>> >>) >>),
      DataFrame(<<>>, <<>>),
      DataFrame(<<"symbol">>, <<>>),
      DataFrame(<<"symbol">>, << <<Str("ABC", 3)>> >>),
      DataFrame(<<"symbol", "value">>,
                << <<Str("ABC", 3), Num(100)>>, <<Str("XYZ", 3), None>> >>) }

(* What the provider may answer to nse_get_advances_declines.              *)
ADOutcomes ==
    { Raised("ConnectionError"),
      None,
      Str("error", 5),
      Dict(<< <<"meta", Nested("m", 12)>>,
              <<"data", List(<< Dict(<< <<"index", Str("NIFTY", 5)>>,
                                        <<"advances", Num(10)>> >>) >>)>> >>),
      Dict(<< <<"meta", Nested("m", 12)>> >>),
      Dict(<< <<"data", List(<<>>)>> >>),
      Dict(<< <<"data", List(<< Num(1), Num(2) >>)>> >>),
      Dict(<< <<"data", List(<< Dict(<<>>) >>)>> >>),
      Dict(<< <<"data", Dict(<< <<"index", Str("NIFTY", 5)>> >>)>> >>),
      List(<< Dict(<< <<"a", Num(1)>> >>), Dict(<< <<"b", Nested("n", 4)>> >>) >>),
      List(<< Dict(<< <<"a", Num(1)>> >>), Num(2) >>) }

Init ==
    /\ pc = "startup"
    /\ env \in [cred : {"unset", "empty", "invalid", "set"},
                sheet : {"unset", "empty", "set"}]
    /\ cur = "none"
    /\ ret = "none"
    /\ data = None
    /\ ws = NoHandle
    /\ tabs \in [TabNames -> PriorSheets]
    /\ files \in [FileNames -> {Absent, OldFile}]
    /\ log = <<>>
    /\ stage = [ds \in Datasets |-> "Idle"]
    /\ exc = "none"
    /\ errlog = <<>>
    /\ rt = RtIdle
    /\ nm = NmIdle
    /\ hu = HuIdle

(* An exception nobody catches leaves the running function and, in the     *)
(* driver, the program.                                                    *)
Crash(name) ==
    /\ pc' = "crashed"
    /\ exc' = name
    /\ stage' = IF cur \in Datasets THEN [stage EXCEPT ![cur] = "Failed"] ELSE stage

-----------------------------------------------------------------------------
(* Module start-up, lines 15-29.                                           *)

ConfigMissingCredOnly(e) == e.cred \in {"unset", "empty"}

ConfigMissing(e) == e.cred \in {"unset", "empty"} \/ e.sheet \in {"unset", "empty"}

Startup ==
    /\ pc = "startup"
    /\ IF ConfigMissing(env)
       THEN Crash("ValueError") /\ UNCHANGED cur
       ELSE IF env.cred = "invalid"
       THEN Crash("JSONDecodeError") /\ UNCHANGED cur
       ELSE /\ pc' = "ma_fetch"
            /\ cur' = "MA"
            /\ stage' = [stage EXCEPT !["MA"] = "Fetching"]
            /\ exc' = exc
    /\ UNCHANGED <<env, ret, data, ws, tabs, files, log, errlog, rt, nm, hu>>

-----------------------------------------------------------------------------
(* The Most Active pipeline, lines 108-119.                                *)

(* fetch_nse_data: the provider's answer, or None with the error logged.   *)
fetch_nse_data(o) ==
    IF o.k = "raise" THEN [raised |-> FALSE, val |-> None, logged |-> TRUE]
    ELSE [raised |-> FALSE, val |-> o, logged |-> FALSE]

FetchMostActive ==
    /\ pc = "ma_fetch"
    /\ \E o \in MAOutcomes :
         LET r == fetch_nse_data(o)
         IN /\ data' = r.val
            /\ log' = Append(log, Call("provider", "MA", o.k # "raise", <<0, 0>>, <<>>))
            /\ errlog' = IF r.logged THEN Append(errlog, "Error fetching NSE data")
                         ELSE errlog
            /\ stage' = [stage EXCEPT !["MA"] = IF r.logged THEN "Failed"
                                                ELSE "Normalizing"]
    /\ pc' = "ma_process"
    /\ UNCHANGED <<env, cur, ret, ws, tabs, files, exc, rt, nm, hu>>

Skip == [k |-> "skip", id |-> "", n |-> 0]

MostActiveTableNoEmptyCheck(d) ==
    LET d1 == IF d.k = "dict" THEN FrameOfList(List(<<d>>)) ELSE d
    IN  IF d1.k = "none" THEN Skip
        ELSE IF d1.k # "df" THEN Raised("AttributeError")
        ELSE flatten_dataframe(validate_and_convert_to_dataframe(d1).val)

(* Lines 111-115: a dict becomes a one-row DataFrame; None and an empty    *)
(* DataFrame are skipped; anything else without .empty raises; the rest    *)
(* is validated and flattened.                                             *)
MostActiveTable(d) ==
    LET d1 == IF d.k = "dict" THEN FrameOfList(List(<<d>>)) ELSE d
    IN  IF d1.k = "none" THEN Skip
        ELSE IF d1.k # "df" THEN Raised("AttributeError")
        ELSE IF IsEmptyFrame(d1) THEN Skip
        ELSE flatten_dataframe(validate_and_convert_to_dataframe(d1).val)

ProcessMostActive ==
    /\ pc = "ma_process"
    /\ LET t == MostActiveTable(data)
       IN  IF t.k = "skip"
           THEN /\ pc' = "ad_fetch"
                /\ cur' = "AD"
                /\ stage' = [MA |-> "Failed", AD |-> "Fetching"]
                /\ UNCHANGED <<data, ret, exc>>
           ELSE IF t.k = "raise"
           THEN Crash(t.id) /\ UNCHANGED <<data, ret, cur>>
           ELSE /\ pc' = "up_open"
                /\ ret' = "ma_csv"
                /\ data' = t
                /\ stage' = [stage EXCEPT !["MA"] = "Writing"]
                /\ UNCHANGED <<cur, exc>>
    /\ UNCHANGED <<env, ws, tabs, files, log, errlog, rt, nm, hu>>

(* save_data_to_csv, lines 96-103: the write, or its error logged.         *)
SaveMostActiveCsv ==
    /\ pc = "ma_csv"
    /\ \E ok \in BOOLEAN :
         /\ files' = IF ok THEN [files EXCEPT ![FileOf("MA")] = ToCsv(data)] ELSE files
         /\ errlog' = IF ok THEN errlog ELSE Append(errlog, "Error saving to CSV")
         /\ log' = Append(log, Call("csv", "MA", ok, <<0, 0>>, <<>>))
         /\ stage' = [MA |-> IF ok THEN "Done" ELSE "Failed", AD |-> "Fetching"]
    /\ pc' = "ad_fetch"
    /\ cur' = "AD"
    /\ UNCHANGED <<env, ret, data, ws, tabs, exc, rt, nm, hu>>

-----------------------------------------------------------------------------
(* upload_to_google_sheets, lines 31-46, one service call per step.        *)

(* Line 33: client.open_by_key(sheet_id).                                  *)
UpOpen ==
    /\ pc = "up_open"
    /\ \E ok \in BOOLEAN :
         /\ log' = Append(log, Call("open", cur, ok, <<0, 0>>, <<>>))
         /\ IF ok THEN pc' = "up_lookup" /\ UNCHANGED <<exc, stage>>
            ELSE Crash("APIError")
    /\ ws' = NoHandle
    /\ UNCHANGED <<env, cur, ret, data, tabs, files, errlog, rt, nm, hu>>

(* Lines 36-37 and 40: sheet.worksheet(tab_name) returns the worksheet,    *)
(* raises WorksheetNotFound (caught), or raises something else.            *)
UpLookup ==
    /\ pc = "up_lookup"
    /\ \E ok \in BOOLEAN :
         /\ log' = Append(log, Call("lookup", cur, ok, <<0, 0>>, <<>>))
         /\ IF ~ok THEN Crash("APIError") /\ UNCHANGED ws
            ELSE /\ ws' = [tab |-> TabOf(cur), found |-> tabs[TabOf(cur)] # Absent]
                 /\ pc' = IF tabs[TabOf(cur)] # Absent THEN "up_clear" ELSE "up_create"
                 /\ UNCHANGED <<exc, stage>>
    /\ UNCHANGED <<env, cur, ret, data, tabs, files, errlog, rt, nm, hu>>

(* Line 38: worksheet.clear().                                             *)
UpClear ==
    /\ pc = "up_clear"
    /\ \E ok \in BOOLEAN :
         /\ log' = Append(log, Call("clear", cur, ok, <<0, 0>>, <<>>))
         /\ IF ok
            THEN /\ tabs' = [tabs EXCEPT ![ws.tab] = Clear(tabs[ws.tab])]
                 /\ pc' = "up_update"
                 /\ UNCHANGED <<exc, stage>>
            ELSE Crash("APIError") /\ UNCHANGED tabs
    /\ UNCHANGED <<env, cur, ret, data, ws, files, errlog, rt, nm, hu>>

NewSheetDimsNoHeader(df) == <<Len(df.rows), Len(df.cols)>>

(* The size line 41 asks for: len(dataframe) + 1 rows, one column per      *)
(* DataFrame column.                                                       *)
NewSheetDims(df) == <<Len(df.rows) + 1, Len(df.cols)>>

(* Line 41: sheet.add_worksheet(title, rows, cols).                        *)
UpCreate ==
    /\ pc = "up_create"
    /\ \E ok \in BOOLEAN :
         /\ log' = Append(log, Call("create", cur, ok, NewSheetDims(data), <<>>))
         /\ IF ok
            THEN /\ tabs' = [tabs EXCEPT ![ws.tab] =
                                AddWorksheet(NewSheetDims(data)[1], NewSheetDims(data)[2])]
                 /\ pc' = "up_update"
                 /\ UNCHANGED <<exc, stage>>
            ELSE Crash("APIError") /\ UNCHANGED tabs
    /\ UNCHANGED <<env, cur, ret, data, ws, files, errlog, rt, nm, hu>>

(* What line 45 does to the worksheet.                                     *)
Written(sheet, df) == Update(sheet, Values(df))

(* Line 45: worksheet.update(header + rows); then the function returns.    *)
UpUpdate ==
    /\ pc = "up_update"
    /\ \E ok \in BOOLEAN :
         /\ log' = Append(log, Call("update", cur, ok, <<0, 0>>, Values(data)))
         /\ IF ok
            THEN /\ tabs' = [tabs EXCEPT ![ws.tab] = Written(tabs[ws.tab], data)]
                 /\ pc' = ret
                 /\ stage' = IF ret = "done" THEN [stage EXCEPT ![cur] = "Done"]
                             ELSE stage
                 /\ exc' = exc
            ELSE Crash("APIError") /\ UNCHANGED tabs
    /\ UNCHANGED <<env, cur, ret, data, ws, files, errlog, rt, nm, hu>>

-----------------------------------------------------------------------------
(* The Advances/Declines pipeline, lines 121-145.                          *)

(* Line 122: nse_get_advances_declines("index"), not guarded.              *)
FetchAdvDec ==
    /\ pc = "ad_fetch"
    /\ \E o \in ADOutcomes :
         /\ log' = Append(log, Call("provider", "AD", o.k # "raise", <<0, 0>>, <<>>))
         /\ IF o.k = "raise"
            THEN Crash(o.id) /\ UNCHANGED data
            ELSE /\ data' = o
                 /\ pc' = "ad_process"
                 /\ stage' = [stage EXCEPT !["AD"] = "Normalizing"]
                 /\ exc' = exc
    /\ UNCHANGED <<env, cur, ret, ws, tabs, files, errlog, rt, nm, hu>>

(* Lines 124-137.                                                          *)
ProcessAdvDec ==
    /\ pc = "ad_process"
    /\ LET t == NormalizeAdvDec(data)
       IN  IF t.k = "raise"
           THEN Crash(t.id) /\ UNCHANGED data
           ELSE /\ data' = t
                /\ pc' = "ad_csv"
                /\ stage' = [stage EXCEPT !["AD"] = "Writing"]
                /\ exc' = exc
    /\ UNCHANGED <<env, cur, ret, ws, tabs, files, log, errlog, rt, nm, hu>>

(* Lines 140-145: df.to_csv, not guarded, then the upload.                 *)
SaveAdvDecCsv ==
    /\ pc = "ad_csv"
    /\ \E ok \in BOOLEAN :
         /\ log' = Append(log, Call("csv", "AD", ok, <<0, 0>>, <<>>))
         /\ IF ok
            THEN /\ files' = [files EXCEPT ![FileOf("AD")] = ToCsv(data)]
                 /\ pc' = "up_open"
                 /\ ret' = "done"
                 /\ UNCHANGED <<exc, stage>>
            ELSE Crash("OSError") /\ UNCHANGED <<files, ret>>
    /\ UNCHANGED <<env, cur, data, ws, tabs, errlog, rt, nm, hu>>

Next ==
    \/ Startup
    \/ FetchMostActive
    \/ ProcessMostActive
    \/ UpOpen
    \/ UpLookup
    \/ UpClear
    \/ UpCreate
    \/ UpUpdate
    \/ SaveMostActiveCsv
    \/ FetchAdvDec
    \/ ProcessAdvDec
    \/ SaveAdvDecCsv

Spec == Init /\ [][Next]_vars

-----------------------------------------------------------------------------
(* fetch_nse_data_with_retries, lines 70-83, against a provider that       *)
(* raises on its first N calls and answers with the payload afterwards.    *)

RetryPayloads ==
    { Dict(<< <<"symbol", Str("ABC", 3)>> >>),
      DataFrame(<<"symbol">>, << <<Str("ABC", 3)>> >>),
      List(<< Dict(<< <<"symbol", Str("ABC", 3)>> >>) >>) }

InitRetry ==
    /\ pc = "off"
    /\ env = [cred |-> "set", sheet |-> "set"]
    /\ cur = "none"
    /\ ret = "none"
    /\ data = None
    /\ ws = NoHandle
    /\ tabs = [t \in TabNames |-> Absent]
    /\ files = [f \in FileNames |-> Absent]
    /\ log = <<>>
    /\ stage = [ds \in Datasets |-> "Idle"]
    /\ exc = "none"
    /\ errlog = <<>>
    /\ rt \in {[RtIdle EXCEPT !.pc = "loop", !.R = r, !.N = f, !.payload = p] :
                 r \in 0..MaxRetries, f \in 0..MaxFails, p \in RetryPayloads}
    /\ nm = NmIdle
    /\ hu = HuIdle

(* The provider's answer to its next call.                                 *)
ProviderAnswer(r) == IF r.calls < r.N THEN Raised("ConnectionError") ELSE r.payload

(* One iteration of the for loop, lines 72-83.                             *)
RetryAttempt ==
    /\ rt.pc = "loop"
    /\ rt.attempt < rt.R
    /\ LET r == fetch_nse_data(ProviderAnswer(rt))
           called == [rt EXCEPT !.calls = @ + 1,
                                !.fetchErrors = IF r.logged THEN @ + 1 ELSE @]
       IN  IF ~r.raised
           THEN rt' = [called EXCEPT !.pc = "done", !.result = r.val]
           ELSE IF rt.attempt < rt.R - 1
           THEN rt' = [called EXCEPT !.attemptErrors = @ + 1, !.sleeps = @ + 1,
                                     !.attempt = @ + 1]
           ELSE rt' = [called EXCEPT !.attemptErrors = @ + 1, !.pc = "done",
                                     !.result = None]
    /\ UNCHANGED <<pc, env, cur, ret, data, ws, tabs, files, log, stage, exc, errlog,
                   nm, hu>>

(* range(retries) is exhausted: the function falls off its end.            *)
RetryExhausted ==
    /\ rt.pc = "loop"
    /\ rt.attempt >= rt.R
    /\ rt' = [rt EXCEPT !.pc = "done", !.result = None]
    /\ UNCHANGED <<pc, env, cur, ret, data, ws, tabs, files, log, stage, exc, errlog,
                   nm, hu>>

NextRetry == RetryAttempt \/ RetryExhausted

SpecRetry == InitRetry /\ [][NextRetry]_vars

-----------------------------------------------------------------------------
(* The normalizers applied to raw payloads of every shape.                 *)

ListElems ==
    { Num(1), Str("x", 1), Dict(<<>>),
      Dict(<< <<"a", Num(1)>> >>),
      Dict(<< <<"b", Nested("n", MaxCellLen + 2)>>, <<"a", None>> >>) }

Lists == {List(f) : f \in UNION {[1..n -> ListElems] : n \in 0..MaxListLen}}

NormInputs ==
    Lists
    \cup {Dict(<< <<"data", l>> >>) : l \in Lists}
    \cup {Dict(<< <<"meta", Nested("m", 12)>>, <<"data", l>> >>) : l \in Lists}
    \cup {e \in ListElems : TRUE}
    \cup {None, DataFrame(<<"a">>, << <<Nested("n", 4)>> >>), DataFrame(<<>>, <<>>)}

InitNorm ==
    /\ pc = "off"
    /\ env = [cred |-> "set", sheet |-> "set"]
    /\ cur = "none"
    /\ ret = "none"
    /\ data = None
    /\ ws = NoHandle
    /\ tabs = [t \in TabNames |-> Absent]
    /\ files = [f \in FileNames |-> Absent]
    /\ log = <<>>
    /\ stage = [ds \in Datasets |-> "Idle"]
    /\ exc = "none"
    /\ errlog = <<>>
    /\ rt = RtIdle
    /\ nm \in {[NmIdle EXCEPT !.pc = "input", !.raw = x] : x \in NormInputs}
    /\ hu = HuIdle

ApplyValidate ==
    /\ nm.pc = "input"
    /\ LET r == validate_and_convert_to_dataframe(nm.raw)
       IN nm' = [nm EXCEPT !.pc = "validated", !.fn = "validate",
                           !.result = r.val, !.warned = r.warned]
    /\ UNCHANGED <<pc, env, cur, ret, data, ws, tabs, files, log, stage, exc, errlog,
                   rt, hu>>

ApplyFlatten ==
    /\ nm.pc = "validated"
    /\ nm.result.k # "raise"
    /\ nm' = [nm EXCEPT !.pc = "flattened", !.result = flatten_dataframe(nm.result)]
    /\ UNCHANGED <<pc, env, cur, ret, data, ws, tabs, files, log, stage, exc, errlog,
                   rt, hu>>

ApplyNormalizeAdvDec ==
    /\ nm.pc = "input"
    /\ nm' = [nm EXCEPT !.pc = "cleaned", !.fn = "advdec",
                        !.result = NormalizeAdvDec(nm.raw)]
    /\ UNCHANGED <<pc, env, cur, ret, data, ws, tabs, files, log, stage, exc, errlog,
                   rt, hu>>

NextNorm == ApplyValidate \/ ApplyFlatten \/ ApplyNormalizeAdvDec

SpecNorm == InitNorm /\ [][NextNorm]_vars

-----------------------------------------------------------------------------
(* upload_to_google_sheets called repeatedly with one table on one tab,    *)
(* whatever the tab held before.                                           *)

ColNames == <<"a", "b", "c", "d">>

CellVals == {Num(1), EmptyStr}

Tables ==
    UNION {{DataFrame(SubSeq(ColNames, 1, c), rows) :
               rows \in UNION {[1..r -> [1..c -> CellVals]] : r \in 0..MaxRows}} :
           c \in 0..MaxCols}
    \cup {DataFrame(<<"a", "b">>, << <<Str("x", 1), None>>, <<None, Num(2)>> >>)}

InitUpload ==
    /\ pc = "h_call"
    /\ env = [cred |-> "set", sheet |-> "set"]
    /\ cur = "MA"
    /\ ret = "h_ret"
    /\ data \in Tables
    /\ ws = NoHandle
    /\ \E prior \in PriorSheets :
         /\ tabs = [t \in TabNames |-> IF t = TabOf("MA") THEN prior ELSE Absent]
         /\ hu = [HuIdle EXCEPT !.pc = "on", !.table = data, !.prior = prior]
    /\ files = [f \in FileNames |-> Absent]
    /\ log = <<>>
    /\ stage = [ds \in Datasets |-> "Idle"]
    /\ exc = "none"
    /\ errlog = <<>>
    /\ rt = RtIdle
    /\ nm = NmIdle

(* The caller enters upload_to_google_sheets.                              *)
UploadCall ==
    /\ pc = "h_call"
    /\ hu.done < MaxUploads
    /\ pc' = "up_open"
    /\ hu' = [hu EXCEPT !.existed = tabs[TabOf(cur)] # Absent, !.mark = Len(log)]
    /\ UNCHANGED <<env, cur, ret, data, ws, tabs, files, log, stage, exc, errlog,
                   rt, nm>>

(* upload_to_google_sheets has returned to the caller.                     *)
UploadReturn ==
    /\ pc = "h_ret"
    /\ pc' = "h_call"
    /\ hu' = [hu EXCEPT !.done = @ + 1,
                        !.first = IF hu.done = 0 THEN tabs[TabOf(cur)] ELSE @]
    /\ UNCHANGED <<env, cur, ret, data, ws, tabs, files, log, stage, exc, errlog,
                   rt, nm>>

NextUpload ==
    \/ UploadCall
    \/ UploadReturn
    \/ UpOpen
    \/ UpLookup
    \/ UpClear
    \/ UpCreate
    \/ UpUpdate

SpecUpload == InitUpload /\ [][NextUpload]_vars

-----------------------------------------------------------------------------
(* Properties.                                                             *)

Terminated == pc \in {"done", "crashed"}

CallsOf(ds, ops) == {i \in 1..Len(log) : log[i].ds = ds /\ log[i].op \in ops}

SinkOps == {"open", "lookup", "clear", "create", "update", "csv"}

(* C1: with retry bound R against a provider that raises on its first N    *)
(* calls, fetch_nse_data_with_retries returns the payload after exactly    *)
(* N+1 provider calls and N logged failed attempts when N < R, and None    *)
(* after exactly R provider calls when N >= R.                             *)
C1_RetryBound ==
    rt.pc = "done" =>
        IF rt.N < rt.R
        THEN rt.result = rt.payload /\ rt.calls = rt.N + 1 /\ rt.attemptErrors = rt.N
        ELSE rt.result = None /\ rt.calls = rt.R

(* C2: once the configuration has loaded, no exception leaves the          *)
(* pipeline driver, whichever stages fail.                                 *)
C2_NoErrorLeavesDriver ==
    (env.cred = "set" /\ env.sheet = "set") => (pc # "crashed" /\ exc = "none")

(* C3: when the run has ended and one dataset's pipeline ended in Failed,  *)
(* the other dataset's pipeline was still run, from its fetch to a         *)
(* terminal state of its own.                                              *)
C3_PipelinesIndependent ==
    (Terminated /\ cur # "none") =>
        \A ds \in Datasets : \A other \in Datasets \ {ds} :
            stage[ds] = "Failed" =>
                (stage[other] \in {"Done", "Failed"}
                 /\ CallsOf(other, {"provider"}) # {})

(* C4: when the run has ended, a dataset for which one sink was invoked    *)
(* had the other sink invoked too: the upload was attempted and the CSV    *)
(* write was attempted.                                                    *)
C4_SinksIndependent ==
    Terminated =>
        \A ds \in Datasets :
            CallsOf(ds, {"open", "csv"}) # {} =>
                (CallsOf(ds, {"open"}) # {} /\ CallsOf(ds, {"csv"}) # {})

(* C5: when the run has ended, each dataset's pipeline that was started    *)
(* is Done or Failed, and a Failed pipeline has modified neither its CSV   *)
(* file nor its spreadsheet tab.                                           *)
C5_FailedWritesNothing ==
    (Terminated /\ cur # "none") =>
        \A ds \in Datasets :
            /\ stage[ds] \in {"Idle", "Done", "Failed"}
            /\ stage[ds] = "Failed" =>
                   \A i \in CallsOf(ds, {"clear", "create", "update", "csv"}) : ~log[i].ok

(* C6: with the credential blob or the spreadsheet identifier absent, the  *)
(* program stops at start-up with no call made to the provider, to the     *)
(* spreadsheet service or to the file system.                              *)
C6_ConfigFailsBeforeIO ==
    (env.cred = "unset" \/ env.sheet = "unset") =>
        /\ log = <<>>
        /\ pc \in {"startup", "crashed"}
        /\ pc = "crashed" => exc = "ValueError"

C6_Witness ==
    pc = "crashed" /\ env.cred = "set" /\ env.sheet = "unset" /\ log = <<>>

(* C7: after every completed upload the worksheet holds exactly the        *)
(* header row followed by the table's rows, and after the second upload    *)
(* the worksheet is what it was after the first.                           *)
C7_UploadIdempotent ==
    (pc = "h_call" /\ hu.done >= 1) =>
        /\ tabs[TabOf(cur)] # Absent
        /\ tabs[TabOf(cur)].cells = Rendered(hu.table)
        /\ tabs[TabOf(cur)] = hu.first

C7_Witness ==
    /\ pc = "h_call"
    /\ hu.done = 2
    /\ hu.prior = OldSheet
    /\ Len(hu.table.rows) = MaxRows
    /\ tabs[TabOf(cur)].cells # {}

(* The service calls of the upload in progress.                            *)
UploadCalls == SubSeq(log, hu.mark + 1, Len(log))

(* C9: an upload that finds the tab clears it and creates nothing; one     *)
(* that does not find it creates one worksheet of rows+1 by columns and    *)
(* clears nothing; the single batch write of header and rows directly      *)
(* follows the clear or the create, and a returned upload ends with it.    *)
C9_ClearOrCreateThenWrite ==
    hu.pc = "on" =>
        LET c == UploadCalls
            at(op) == {i \in 1..Len(c) : c[i].op = op}
        IN  /\ Cardinality(at("update")) <= 1
            /\ Cardinality(at("create")) <= 1
            /\ Cardinality(at("clear")) <= 1
            /\ hu.existed => at("create") = {}
            /\ ~hu.existed => at("clear") = {}
            /\ \A i \in at("create") :
                   c[i].dims = <<Len(hu.table.rows) + 1, Len(hu.table.cols)>>
            /\ \A i \in at("update") :
                   /\ i > 1
                   /\ c[i - 1].ok
                   /\ c[i - 1].op = IF hu.existed THEN "clear" ELSE "create"
                   /\ c[i].vals = <<[j \in 1..Len(hu.table.cols) |->
                                        Str(hu.table.cols[j], Len(hu.table.cols[j]))]>>
                                \o hu.table.rows
            /\ pc = "h_ret" => (at("update") = {Len(c)} /\ c[Len(c)].ok)

C9_Witness ==
    /\ pc = "h_ret"
    /\ hu.done = 1
    /\ hu.prior = Absent
    /\ Len(hu.table.rows) = MaxRows
    /\ \E i \in 1..hu.mark : log[i].op = "create" /\ log[i].ok

Tabular(x) ==
    \/ x.k \in {"dict", "df"}
    \/ x.k = "list" /\ \A i \in 1..Len(x.items) : x.items[i].k = "dict"

(* C8: a normalizer given raw data that is neither a mapping nor a         *)
(* sequence of mappings reports an error and returns no table.             *)
C8_FormatErrorReported ==
    /\ (nm.pc = "validated" /\ ~Tabular(nm.raw)) => nm.result.k # "df"
    /\ (nm.pc = "cleaned" /\ ~Tabular(ExtractRows(nm.raw))) => nm.result.k # "df"

(* C10: a sink is only ever invoked with a table of at least one row,      *)
(* fetched by a provider call that returned; no clear, create, write or    *)
(* CSV call is made for an empty or absent fetch result.                   *)
C10_NoEmptyTableAtSink ==
    /\ pc \in {"up_open", "up_lookup", "up_clear", "up_create", "up_update",
               "ma_csv", "ad_csv"}
          => (data.k = "df" /\ Len(data.rows) >= 1)
    /\ \A i \in 1..Len(log) :
          /\ log[i].op = "update" => Len(log[i].vals) >= 2
          /\ log[i].op = "create" => log[i].dims[1] >= 2
          /\ log[i].op \in SinkOps =>
                \E j \in 1..(i - 1) :
                    log[j].op = "provider" /\ log[j].ds = log[i].ds /\ log[j].ok

C10_Witness ==
    /\ pc = "done"
    /\ CallsOf("MA", {"provider"}) # {}
    /\ \A i \in CallsOf("MA", {"provider"}) : log[i].ok
    /\ CallsOf("MA", SinkOps) = {}
    /\ \E i \in CallsOf("AD", {"clear"}) : log[i].ok
    /\ \E i \in CallsOf("AD", {"update"}) : log[i].ok

====
